---------------------------- MODULE Spec2Model ----------------------------
(***************************************************************************)
(* Geofenced attendance API (src/server.js): the POST /attendance session  *)
(* state machine, its state-determination middleware, the teacher store    *)
(* operations that race with it, the photo storage and the two clocks      *)
(* (application UTC date, database NOW()).                                  *)
(*                                                                         *)
(* Every await of the handler is a separate step, so that requests         *)
(* interleave exactly where the event loop lets them.                      *)
(*                                                                         *)
(* Specifications: Spec (requests arrive while others are being handled),  *)
(* SpecSeq (one at a time, with a record of the responses), SpecCleanup    *)
(* (one at a time, unlink may fail), SpecStatus (one at a time, with GET   *)
(* /attendance/status), SpecDistance (calculateDistance on its own) and    *)
(* SpecLive (Spec, where every database call settles).                     *)
(*                                                                         *)
(* Coordinates are the decimal strings of the form fields.  parseFloat is  *)
(* tabulated on the strings the model sends.  The numbers are in units of   *)
(* the angle that subtends one metre on the Earth's surface (1/R rad), on   *)
(* sites within 100 m of latitude 0, where the haversine formula gives the  *)
(* Euclidean distance of the offsets to within 1e-9.                       *)
(***************************************************************************)
EXTENDS Integers, Sequences, FiniteSets, TLC

(* ------------------------------ bounds -------------------------------- *)
MaxSubmissions == 3     \* POST /attendance requests over a run
MaxInFlight == 2        \* requests being handled at the same time
MaxSeqSubmissions == 4  \* POST /attendance requests over a run, sent one at a time
MaxTicks == 1           \* clock advances over a run
MaxAdminOps == 1        \* PUT/DELETE /teachers requests over a run
MaxDbFailures == 1      \* database calls that fail over a run
MaxFsFailures == 1      \* cleanupFiles calls in which unlinkSync throws, over a run
MaxCleanupSubmissions == 3  \* POST /attendance requests over a run with such failures
MaxStatusSubmissions == 2   \* POST /attendance requests over a run with status requests

(* ------------------------- program constants --------------------------- *)
ALLOWED_RADIUS_METERS == 50
TicksPerDay == 2        \* the clock ticks twice a calendar day

(* ------------------------------ values --------------------------------- *)
NaN == -1               \* the float NaN (distances are never negative)
NULL == "NULL"          \* SQL NULL / JS null
Undefined == ""         \* an absent form field (falsy, like the empty string)
NoTime == -1            \* check_out_time IS NULL
NoPath == <<>>          \* a NULL photo url
NoSession == 0          \* req.session = null
NoTeacherId == 0        \* req.body.teacher_id undefined

TeacherIds == {1, 2}
ManagedTeacherIds == {1}  \* the teachers PUT and DELETE /teachers are sent for
Slots == 1..MaxInFlight   \* a request is handled in a slot until its response

VARIABLES
    teachers,      \* table teachers: id -> row (exists: the row is in the table)
    attendance,    \* table attendance: a set of rows
    lastInsertId,  \* AUTO_INCREMENT counter of attendance
    uploads,       \* files present in uploads/
    now,           \* the time, in ticks
    dbTzOffset,    \* ticks by which the database's time zone is ahead of UTC
    req,           \* slot -> the POST /attendance request in it (kept until the
                   \* slot is taken again, so that its response can be observed)
    nreq,          \* requests received so far
    alive,         \* the server process is running
    adminOps,      \* teacher-management requests so far
    dbFailures,    \* failed database calls so far
    fsFailures,    \* cleanupFiles calls that failed so far
    statusReq,     \* the GET /attendance/status request being handled, or the
                   \* last one answered
    measured,      \* the last distances computed between two given points
    history        \* the responses so far, in order (recorded under SpecSeq)

vars == <<teachers, attendance, lastInsertId, uploads, now, dbTzOffset,
          req, nreq, alive, adminOps, dbFailures, fsFailures, statusReq,
          measured, history>>

(* ------------------------------ clocks --------------------------------- *)
\* the UTC calendar day of instant t
UtcDate(t) == t \div TicksPerDay
\* new Date().toISOString().slice(0, 10)
todayDate == UtcDate(now)
\* DATE(t) as the database evaluates it, in its own time zone
DATE(t) == (t + dbTzOffset) \div TicksPerDay

(* ---------------------------- pure helpers ----------------------------- *)
\* parseFloat on the strings the model uses: a numeric prefix is parsed,
\* anything else is NaN
parseFloat(s) ==
    CASE s = "0" -> 0
      [] s = "30" -> 30
      [] s = "40" -> 40
      [] s = "51" -> 51
      [] OTHER -> NaN

\* the least n with n * n >= x
RECURSIVE CeilSqrtFrom(_, _)
CeilSqrtFrom(x, n) == IF n * n >= x THEN n ELSE CeilSqrtFrom(x, n + 1)
CeilSqrt(x) == CeilSqrtFrom(x, 0)

\* (a bug this model is compared with: the latitude term is not squared)
calculateDistance_NotSquared(lat1, lon1, lat2, lon2) ==
    IF NaN \in {lat1, lon1, lat2, lon2}
    THEN NaN
    ELSE CeilSqrt((lat2 - lat1) + (lon2 - lon1) * (lon2 - lon1))

\* haversine distance in metres, rounded up to a whole metre (which keeps
\* every comparison with a whole number of metres exact); NaN in, NaN out
calculateDistance(lat1, lon1, lat2, lon2) ==
    IF NaN \in {lat1, lon1, lat2, lon2}
    THEN NaN
    ELSE CeilSqrt((lat2 - lat1) * (lat2 - lat1) + (lon2 - lon1) * (lon2 - lon1))

\* the numbers the form fields of the model parse to
CoordinateValues == {0, 30, 40, 51}
\* points: latitude and longitude
Points == CoordinateValues \X CoordinateValues

\* nothing computed yet
NotMeasured == [a |-> <<0, 0>>, b |-> <<0, 0>>, ab |-> NaN, ba |-> NaN, aa |-> NaN]

\* calculateDistance is called on two points, both ways, and on one point twice
Measure(A, B) ==
    measured' = [a |-> A, b |-> B,
                 ab |-> calculateDistance(A[1], A[2], B[1], B[2]),
                 ba |-> calculateDistance(B[1], B[2], A[1], A[2]),
                 aa |-> calculateDistance(A[1], A[2], A[1], A[2])]

\* a > b on floats: false when either side is NaN
GreaterThan(a, b) == a # NaN /\ b # NaN /\ a > b

\* distance > ALLOWED_RADIUS_METERS
OutOfRange(distance) == GreaterThan(distance, ALLOWED_RADIUS_METERS)

\* !x on a form field
Falsy(x) == x = Undefined

(* ----------------------------- requests -------------------------------- *)
\* a request body: the form fields, and which photo parts the body carries
Body(mp, t, pos, p1, p2) ==
    [multipart |-> mp, teacher_id |-> t, latitude |-> pos[1], longitude |-> pos[2],
     photo1 |-> p1, photo2 |-> p2]

\* the requests the model sends: a submission at exactly
\* 50 m for each teacher, one at 51 m, one with a latitude that is not a
\* number, one without latitude, one without photo2, one without teacher_id,
\* and one that is not multipart (a JSON body, no files)
Submissions ==
    { Body(TRUE, 1, <<"30", "40">>, TRUE, TRUE),
      Body(TRUE, 2, <<"30", "40">>, TRUE, TRUE),
      Body(TRUE, 1, <<"0", "51">>, TRUE, TRUE),
      Body(TRUE, 1, <<"abc", "40">>, TRUE, TRUE),
      Body(TRUE, 1, <<Undefined, "40">>, TRUE, TRUE),
      Body(TRUE, 1, <<"30", "40">>, TRUE, FALSE),
      Body(TRUE, NoTeacherId, <<"30", "40">>, TRUE, TRUE),
      Body(FALSE, 1, <<"30", "40">>, FALSE, FALSE) }

\* req.attendanceAction || 'photo'
FilenameAction(attendanceAction) ==
    IF attendanceAction = "none" THEN "photo" ELSE attendanceAction

\* what upload.fields, the first middleware of the route, finds in
\* req.attendanceAction: getAttendanceAction has not run yet
AttendanceActionAtUpload == "none"

\* multer's filename: `${teacherId}-${action}-${fieldname}-${uniqueSuffix}`;
\* n is the unique suffix
Filename(n, b, fieldname) ==
    <<b.teacher_id, FilenameAction(AttendanceActionAtUpload), fieldname, n>>

\* req.files[fieldname][0].path (destination and filename), or NoPath
PhotoPath(n, b, fieldname) ==
    IF b.multipart /\ b[fieldname] THEN <<"uploads", Filename(n, b, fieldname)>>
    ELSE NoPath

\* the last component of a path
basename(path) == path[Len(path)]

\* the URL under which express.static('uploads') serves the file at path
PublicUrl(path) == <<"/uploads", basename(path)>>

\* GET url finds a file: the static middleware looks the rest of the URL up
\* in uploads/
Retrievable(url) == url[1] = "/uploads" /\ <<"uploads", url[2]>> \in uploads

IdleRequest ==
    [pc |-> "idle", body |-> Body(FALSE, NoTeacherId, <<Undefined, Undefined>>, FALSE, FALSE),
     photo1 |-> NoPath, photo2 |-> NoPath, receivedAt |-> 0, todayDate |-> 0,
     attendanceAction |-> AttendanceActionAtUpload, session |-> NoSession,
     distance |-> NaN,
     responses |-> <<>>, attendanceId |-> 0, writes |-> 0, stored |-> {},
     cleanups |-> 0]

Free(r) == req[r].pc \in {"idle", "done"}

\* no GET /attendance/status request yet
NoStatusRequest ==
    [pc |-> "idle", teacher_id |-> NoTeacherId, todayDate |-> 0, status |-> "none"]

(* ------------------------------ Init ----------------------------------- *)
Init ==
    /\ teachers = [t \in TeacherIds |->
                       [exists |-> TRUE, latitude |-> "0", longitude |-> "0"]]
    /\ attendance = {}
    /\ lastInsertId = 0
    /\ uploads = {}
    /\ now = TicksPerDay - 1        \* the run starts in the last tick of a UTC day
    /\ dbTzOffset \in {0, 1}
    /\ req = [r \in Slots |-> IdleRequest]
    /\ nreq = 0
    /\ alive = TRUE
    /\ adminOps = 0
    /\ dbFailures = 0
    /\ fsFailures = 0
    /\ statusReq = NoStatusRequest
    /\ measured = NotMeasured
    /\ history = <<>>

(* --------------------------- response helpers -------------------------- *)
\* res.status(201) after the INSERT, res.status(200) after the UPDATE
SuccessStatus(action) == IF action = "check_in" THEN 201 ELSE 200

\* res.status(code).json(...): the request ends with this response
Respond(q, code) == [q EXCEPT !.pc = "done", !.responses = Append(@, code)]

\* cleanupFiles: unlink both photos if they exist
cleanupFiles(q) == uploads \ {q.photo1, q.photo2}

\* what cleanupFiles leaves in uploads/ when fs.unlinkSync throws (EPERM,
\* EBUSY, EIO) on photo1 or on photo2: its catch logs the error, and the
\* photo it failed on stays, with the one after it
cleanupFilesFailing(q) == {uploads, uploads \ {q.photo1}} \ {cleanupFiles(q)}

\* an unlink may fail
FsMayFail == fsFailures < MaxFsFailures

\* the call cleanupFiles() of request q; it never throws
CleanupFiles(q) ==
    \/ uploads' = cleanupFiles(q) /\ UNCHANGED fsFailures
    \/ /\ FsMayFail
       /\ uploads' \in cleanupFilesFailing(q)
       /\ fsFailures' = fsFailures + 1

\* (a bug this model is compared with: cleanupFiles does not catch, and a
\* failing unlink is answered 500 ahead of the answer the handler intended)
Cleaned_Escalates(q) ==
    [q EXCEPT !.cleanups = @ + 1,
              !.responses = IF uploads' # cleanupFiles(q) THEN Append(@, 500) ELSE @]

\* the request has called cleanupFiles()
Cleaned(q) == [q EXCEPT !.cleanups = @ + 1]

(* -------------------------- SQL statements ----------------------------- *)
\* (a bug this model is compared with: the lookup has no teacher_id condition)
SelectSessions_AnyTeacher(teacher_id, day) ==
    { a \in attendance : DATE(a.check_in_time) = day }

\* SELECT id, check_in_time, check_out_time FROM attendance
\*   WHERE teacher_id = ? AND DATE(check_in_time) = ?
SelectSessions(teacher_id, day) ==
    { a \in attendance : a.teacher_id = teacher_id /\ DATE(a.check_in_time) = day }

\* SELECT latitude, longitude FROM teachers WHERE id = ?
SelectTeacher(teacher_id) ==
    { t \in TeacherIds : t = teacher_id /\ teachers[t].exists }

\* INSERT INTO attendance (teacher_id, check_in_time, ...) VALUES (?, NOW(), ...)
InsertedRow(q, id) ==
    [id |-> id, teacher_id |-> q.body.teacher_id, check_in_time |-> now,
     check_in_photo_url1 |-> q.photo1, check_in_photo_url2 |-> q.photo2,
     check_in_latitude |-> q.body.latitude, check_in_longitude |-> q.body.longitude,
     check_out_time |-> NoTime,
     check_out_photo_url1 |-> NoPath, check_out_photo_url2 |-> NoPath,
     check_out_latitude |-> NULL, check_out_longitude |-> NULL]

\* the rows UPDATE attendance SET ... WHERE id = ? applies to
UpdateTargets(id) == { a \in attendance : a.id = id }

\* (a bug this model is compared with: the UPDATE also sets check_in_time)
UpdatedRow_ResetsCheckIn(a, q) ==
    [a EXCEPT !.check_in_time = now, !.check_out_time = now,
              !.check_out_photo_url1 = q.photo1, !.check_out_photo_url2 = q.photo2,
              !.check_out_latitude = q.body.latitude,
              !.check_out_longitude = q.body.longitude]

\* UPDATE attendance SET check_out_time = NOW(), check_out_photo_url1 = ?, ...
UpdatedRow(a, q) ==
    [a EXCEPT !.check_out_time = now,
              !.check_out_photo_url1 = q.photo1, !.check_out_photo_url2 = q.photo2,
              !.check_out_latitude = q.body.latitude,
              !.check_out_longitude = q.body.longitude]

\* a database call may fail (connection lost, pool exhausted, bad value)
DbMayFail == dbFailures < MaxDbFailures

(* --------------------- getAttendanceAction's decision ------------------ *)
\* (a bug this model is compared with: a row that has its check-out is taken
\* for an open session)
ActionFor_NeverCompleted(existing, s) ==
    IF existing = {} THEN "check_in" ELSE "check_out"

\* req.attendanceAction for the row the lookup returned first (NoSession: none)
ActionFor(existing, s) ==
    IF existing = {} THEN "check_in"
    ELSE IF s.check_out_time # NoTime THEN "completed" ELSE "check_out"

\* !latitude || !longitude || !photo1 || !photo2
BasicValidationFails(q) ==
    Falsy(q.body.latitude) \/ Falsy(q.body.longitude)
        \/ q.photo1 = NoPath \/ q.photo2 = NoPath

\* teacher.latitude == null || teacher.longitude == null
CoordinatesUnset(t) == t.latitude = NULL \/ t.longitude = NULL

\* calculateDistance(parseFloat(latitude), ..., parseFloat(teacher.longitude))
DistanceTo(q, t) ==
    calculateDistance(parseFloat(q.body.latitude), parseFloat(q.body.longitude),
                      parseFloat(t.latitude), parseFloat(t.longitude))

(* ------------------------- POST /attendance ---------------------------- *)
\* The request arrives: upload.fields stores the photos of a multipart body,
\* then getAttendanceAction runs up to its SELECT.
Submit(r, b) ==
    /\ alive
    /\ Free(r) /\ \A s \in Slots : s < r => ~Free(s)
    /\ LET p1 == PhotoPath(nreq + 1, b, "photo1")
           p2 == PhotoPath(nreq + 1, b, "photo2")
           files == {p1, p2} \ {NoPath}
           q == [IdleRequest EXCEPT !.body = b, !.photo1 = p1, !.photo2 = p2,
                                    !.stored = files, !.receivedAt = now,
                                    !.todayDate = todayDate]
       IN /\ uploads' = uploads \cup files
          /\ req' = [req EXCEPT ![r] =
                        IF b.teacher_id = NoTeacherId
                        THEN Respond(q, 400)                 \* teacher_id is missing
                        ELSE [q EXCEPT !.pc = "lookup"]]
    /\ nreq' = nreq + 1
    /\ UNCHANGED <<teachers, attendance, lastInsertId, now, dbTzOffset,
                   alive, adminOps, dbFailures, fsFailures>>

\* getAttendanceAction's SELECT fails: its catch answers 500
SessionLookupFails(r) ==
    /\ alive /\ req[r].pc = "lookup" /\ DbMayFail
    /\ dbFailures' = dbFailures + 1
    /\ req' = [req EXCEPT ![r] = Respond(@, 500)]
    /\ UNCHANGED <<teachers, attendance, lastInsertId, uploads, now, dbTzOffset,
                   nreq, alive, adminOps, fsFailures>>

\* The route handler from its first line to its first await, for a request
\* whose state determination gave `action` and `session`.
\* An exception thrown before the try block rejects the handler's promise:
\* the unhandledRejection handler exits the process (crash), or the router
\* forwards the rejection to its error handler, which answers 500.
HandlerStart(r, action, session, crash) ==
    LET q == [req[r] EXCEPT !.attendanceAction = action, !.session = session] IN
    IF ~q.body.multipart
    THEN \* req.files is undefined: photos.photo1 throws a TypeError
         /\ alive' = ~crash
         /\ req' = [req EXCEPT ![r] = IF crash THEN [q EXCEPT !.pc = "dead"]
                                       ELSE Respond(q, 500)]
         /\ UNCHANGED <<uploads, fsFailures>>
    ELSE /\ UNCHANGED alive
         /\ IF BasicValidationFails(q)
            THEN /\ CleanupFiles(q)
                 /\ req' = [req EXCEPT ![r] = Respond(Cleaned(q), 400)]
            ELSE IF action = "completed"
            THEN /\ CleanupFiles(q)
                 /\ req' = [req EXCEPT ![r] = Respond(Cleaned(q), 409)]
            ELSE /\ UNCHANGED <<uploads, fsFailures>>
                 /\ req' = [req EXCEPT ![r] = [q EXCEPT !.pc = "teacher"]]

\* getAttendanceAction's SELECT returns; next() runs the route handler
SessionLookup(r) ==
    /\ alive /\ req[r].pc = "lookup"
    /\ LET existing == SelectSessions(req[r].body.teacher_id, req[r].todayDate) IN
       \E crash \in BOOLEAN :
          \/ /\ existing = {}
             /\ HandlerStart(r, ActionFor(existing, NoSession), NoSession, crash)
          \/ \E s \in existing :                       \* existing[0]
                HandlerStart(r, ActionFor(existing, s), s.id, crash)
    /\ UNCHANGED <<teachers, attendance, lastInsertId, now, dbTzOffset,
                   nreq, adminOps, dbFailures>>

\* the handler's SELECT of the teacher fails: catch, cleanup, 500
TeacherLookupFails(r) ==
    /\ alive /\ req[r].pc = "teacher" /\ DbMayFail
    /\ dbFailures' = dbFailures + 1
    /\ CleanupFiles(req[r])
    /\ req' = [req EXCEPT ![r] = Respond(Cleaned(@), 500)]
    /\ UNCHANGED <<teachers, attendance, lastInsertId, now, dbTzOffset,
                   nreq, alive, adminOps>>

\* the handler's SELECT of the teacher returns: location validation
TeacherLookup(r) ==
    /\ alive /\ req[r].pc = "teacher"
    /\ LET q == req[r]
           teacherRows == SelectTeacher(q.body.teacher_id)
       IN IF teacherRows = {}
          THEN /\ CleanupFiles(q)
               /\ req' = [req EXCEPT ![r] = Respond(Cleaned(q), 404)]
          ELSE LET teacher == teachers[q.body.teacher_id]
                   distance == DistanceTo(q, teacher)
               IN IF CoordinatesUnset(teacher)
                  THEN /\ CleanupFiles(q)
                       /\ req' = [req EXCEPT ![r] = Respond(Cleaned(q), 400)]
                  ELSE IF OutOfRange(distance)
                  THEN /\ CleanupFiles(q)
                       /\ req' = [req EXCEPT ![r] =
                                     Respond(Cleaned([q EXCEPT !.distance = distance]), 403)]
                  ELSE /\ UNCHANGED <<uploads, fsFailures>>
                       /\ req' = [req EXCEPT ![r] =
                                     [q EXCEPT !.distance = distance, !.pc = "write"]]
    /\ UNCHANGED <<teachers, attendance, lastInsertId, now, dbTzOffset,
                   nreq, alive, adminOps, dbFailures>>

\* the INSERT or UPDATE fails: catch, cleanup, 500
WriteFails(r) ==
    /\ alive /\ req[r].pc = "write" /\ DbMayFail
    /\ dbFailures' = dbFailures + 1
    /\ CleanupFiles(req[r])
    /\ req' = [req EXCEPT ![r] = Respond(Cleaned(@), 500)]
    /\ UNCHANGED <<teachers, attendance, lastInsertId, now, dbTzOffset,
                   nreq, alive, adminOps>>

\* The database applies the INSERT or UPDATE, but the promise of execute is
\* rejected (the connection is lost before the OK packet arrives): the
\* handler's catch runs as for any other rejection: cleanup, 500.
WriteLost(r) ==
    /\ alive /\ req[r].pc = "write" /\ DbMayFail
    /\ dbFailures' = dbFailures + 1
    /\ LET q == req[r]
           targets == UpdateTargets(q.session)
       IN /\ IF q.attendanceAction = "check_in"
             THEN /\ SelectTeacher(q.body.teacher_id) # {}
                  /\ lastInsertId' = lastInsertId + 1
                  /\ attendance' = attendance \cup {InsertedRow(q, lastInsertId')}
             ELSE /\ targets # {}
                  /\ attendance' = (attendance \ targets)
                                       \cup { UpdatedRow(a, q) : a \in targets }
                  /\ UNCHANGED lastInsertId
          /\ CleanupFiles(q)
          /\ req' = [req EXCEPT ![r] =
                        Respond(Cleaned([q EXCEPT !.writes = @ + 1]), 500)]
    /\ UNCHANGED <<teachers, now, dbTzOffset, nreq, alive, adminOps>>

\* attendanceAction === 'check_in': INSERT, 201; the foreign key rejects a
\* teacher_id without a teacher row (ER_NO_REFERENCED_ROW_2: cleanup, 404)
CheckIn(r) ==
    /\ alive /\ req[r].pc = "write" /\ req[r].attendanceAction = "check_in"
    /\ LET q == req[r] IN
       IF SelectTeacher(q.body.teacher_id) = {}
       THEN /\ CleanupFiles(q)
            /\ req' = [req EXCEPT ![r] = Respond(Cleaned(q), 404)]
            /\ UNCHANGED <<attendance, lastInsertId>>
       ELSE /\ lastInsertId' = lastInsertId + 1
            /\ attendance' = attendance \cup {InsertedRow(q, lastInsertId')}
            /\ req' = [req EXCEPT ![r] =
                          Respond([q EXCEPT !.writes = @ + 1,
                                            !.attendanceId = lastInsertId'],
                                  SuccessStatus("check_in"))]
            /\ UNCHANGED <<uploads, fsFailures>>
    /\ UNCHANGED <<teachers, now, dbTzOffset, nreq, alive,
                   adminOps, dbFailures>>

\* attendanceAction === 'check_out': UPDATE ... WHERE id = session.id, 200
CheckOut(r) ==
    /\ alive /\ req[r].pc = "write" /\ req[r].attendanceAction = "check_out"
    /\ LET q == req[r]
           targets == UpdateTargets(q.session)
       IN /\ attendance' = (attendance \ targets) \cup { UpdatedRow(a, q) : a \in targets }
          /\ req' = [req EXCEPT ![r] =
                        Respond([q EXCEPT !.writes = @ + Cardinality(targets),
                                          !.attendanceId = q.session],
                                SuccessStatus("check_out"))]
    /\ UNCHANGED <<teachers, lastInsertId, uploads, now, dbTzOffset,
                   nreq, alive, adminOps, dbFailures, fsFailures>>

(* --------------------------- teacher store ----------------------------- *)
\* DELETE /teachers/:id. The schema is not part of the source: a teacher
\* with attendance rows is deleted together with them where the foreign key
\* is ON DELETE CASCADE, and not at all otherwise (the DELETE fails, 500).
DeleteTeacher(t, onDeleteCascade) ==
    /\ alive /\ adminOps < MaxAdminOps /\ teachers[t].exists
    /\ adminOps' = adminOps + 1
    /\ LET rows == { a \in attendance : a.teacher_id = t } IN
       IF rows # {} /\ ~onDeleteCascade
       THEN UNCHANGED <<teachers, attendance>>
       ELSE /\ teachers' = [teachers EXCEPT ![t].exists = FALSE]
            /\ attendance' = attendance \ rows
    /\ UNCHANGED <<lastInsertId, uploads, now, dbTzOffset,
                   req, nreq, alive, dbFailures, fsFailures>>

\* PUT /teachers/:id with latitude and longitude in the body
PutTeacher(t, latitude, longitude) ==
    /\ alive /\ adminOps < MaxAdminOps /\ teachers[t].exists
    /\ adminOps' = adminOps + 1
    /\ teachers' = [teachers EXCEPT ![t].latitude = latitude,
                                    ![t].longitude = longitude]
    /\ UNCHANGED <<attendance, lastInsertId, uploads, now, dbTzOffset,
                   req, nreq, alive, dbFailures, fsFailures>>

(* --------------------- GET /attendance/status -------------------------- *)
\* the handler up to its SELECT: todayDate is taken from the clock
GetStatus(t) ==
    /\ alive /\ statusReq.pc # "select"
    /\ statusReq' = [pc |-> "select", teacher_id |-> t, todayDate |-> todayDate,
                     status |-> "none"]
    /\ UNCHANGED <<teachers, attendance, lastInsertId, uploads, now, dbTzOffset,
                   req, nreq, alive, adminOps, dbFailures>>

\* the status reported for the row the SELECT returned first
StatusFor(rows, s) ==
    IF rows = {} THEN "not_checked_in"
    ELSE IF s.check_out_time = NoTime THEN "checked_in" ELSE "completed"

\* the SELECT returns: 200 with the status
StatusLookup ==
    /\ alive /\ statusReq.pc = "select"
    /\ LET rows == SelectSessions(statusReq.teacher_id, statusReq.todayDate) IN
          \/ /\ rows = {}
             /\ statusReq' = [statusReq EXCEPT !.pc = "done",
                                 !.status = StatusFor(rows, NoSession)]
          \/ \E s \in rows :                              \* rows[0]
                statusReq' = [statusReq EXCEPT !.pc = "done",
                                 !.status = StatusFor(rows, s)]
    /\ UNCHANGED <<teachers, attendance, lastInsertId, uploads, now, dbTzOffset,
                   req, nreq, alive, adminOps, dbFailures>>

\* the SELECT fails: 500
StatusLookupFails ==
    /\ alive /\ statusReq.pc = "select" /\ DbMayFail
    /\ dbFailures' = dbFailures + 1
    /\ statusReq' = [statusReq EXCEPT !.pc = "done", !.status = "error"]
    /\ UNCHANGED <<teachers, attendance, lastInsertId, uploads, now, dbTzOffset,
                   req, nreq, alive, adminOps>>

(* ------------------------------- time ---------------------------------- *)
Tick ==
    /\ alive /\ now < TicksPerDay - 1 + MaxTicks
    /\ now' = now + 1
    /\ UNCHANGED <<teachers, attendance, lastInsertId, uploads, dbTzOffset,
                   req, nreq, alive, adminOps, dbFailures, fsFailures>>

(* ------------------------------ Next ----------------------------------- *)
\* a step in which no unlink fails, outside any status request, distance
\* computation or record of responses
Reliable == UNCHANGED <<history, fsFailures, statusReq, measured>>

\* requests arrive while others are being handled; no unlink fails (what is
\* left in uploads/ has no influence on any request)
Next ==
    \/ \E r \in Slots, b \in Submissions :
          nreq < MaxSubmissions /\ Submit(r, b) /\ Reliable
    \/ \E r \in Slots : SessionLookupFails(r) /\ Reliable
    \/ \E r \in Slots : SessionLookup(r) /\ Reliable
    \/ \E r \in Slots : TeacherLookupFails(r) /\ Reliable
    \/ \E r \in Slots : TeacherLookup(r) /\ Reliable
    \/ \E r \in Slots : WriteFails(r) /\ Reliable
    \/ \E r \in Slots : WriteLost(r) /\ Reliable
    \/ \E r \in Slots : CheckIn(r) /\ Reliable
    \/ \E r \in Slots : CheckOut(r) /\ Reliable
    \/ \E t \in ManagedTeacherIds, onDeleteCascade \in BOOLEAN :
          DeleteTeacher(t, onDeleteCascade) /\ Reliable
    \/ \E t \in ManagedTeacherIds : PutTeacher(t, NULL, NULL) /\ Reliable
    \/ Tick /\ Reliable

Spec == Init /\ [][Next]_vars

(* ------------------- one request at a time, recorded ------------------- *)
\* the submission is complete, well-formed and within the radius of the
\* designated coordinates ("0", "0")
ValidInRange(b) ==
    /\ b.multipart /\ b.photo1 /\ b.photo2 /\ b.teacher_id \in TeacherIds
    /\ <<b.latitude, b.longitude>> = <<"30", "40">>

\* the request was received and answered on one calendar day, the same for
\* the application's clock and the database's
OneDay(q, answeredAt) ==
    /\ UtcDate(q.receivedAt) = UtcDate(answeredAt)
    /\ DATE(q.receivedAt) = UtcDate(q.receivedAt)
    /\ DATE(answeredAt) = UtcDate(answeredAt)

\* what history keeps of an answered request
Entry(q, answeredAt) ==
    LET clean == ValidInRange(q.body) /\ OneDay(q, answeredAt) /\ q.responses # <<500>> IN
    [teacher_id |-> q.body.teacher_id, clean |-> clean,
     day |-> IF clean THEN q.todayDate ELSE 0,
     responses |-> IF clean THEN q.responses ELSE <<>>]

\* history gains the request answered in this step, if any
Record ==
    LET answered == { r \in Slots : req[r].pc # "done" /\ req'[r].pc = "done" } IN
    history' = IF answered = {} THEN history
               ELSE Append(history, Entry(req'[CHOOSE r \in answered : TRUE], now'))

\* a step as in Next, with the response it gives recorded
Recorded == Record /\ UNCHANGED <<fsFailures, statusReq, measured>>

\* a request arrives only when no other is being handled
NextSeq ==
    \/ \E b \in Submissions :
          /\ nreq < MaxSeqSubmissions
          /\ \A r \in Slots : Free(r)
          /\ Submit(1, b) /\ Recorded
    \/ \E r \in Slots : SessionLookupFails(r) /\ Recorded
    \/ \E r \in Slots : SessionLookup(r) /\ Recorded
    \/ \E r \in Slots : TeacherLookupFails(r) /\ Recorded
    \/ \E r \in Slots : TeacherLookup(r) /\ Recorded
    \/ \E r \in Slots : WriteFails(r) /\ Recorded
    \/ \E r \in Slots : WriteLost(r) /\ Recorded
    \/ \E r \in Slots : CheckIn(r) /\ Recorded
    \/ \E r \in Slots : CheckOut(r) /\ Recorded
    \/ \E t \in ManagedTeacherIds, onDeleteCascade \in BOOLEAN :
          DeleteTeacher(t, onDeleteCascade) /\ Recorded
    \/ \E t \in ManagedTeacherIds : PutTeacher(t, NULL, NULL) /\ Recorded
    \/ Tick /\ Recorded

SpecSeq == Init /\ [][NextSeq]_vars

(* ------------- one request at a time, cleanup may fail ----------------- *)
\* a step in which an unlink may fail
Unrecorded == UNCHANGED <<history, statusReq, measured>>

\* as NextSeq, with unlink failures and without the record of responses
NextCleanup ==
    \/ \E b \in Submissions :
          /\ nreq < MaxCleanupSubmissions
          /\ \A r \in Slots : Free(r)
          /\ Submit(1, b) /\ Unrecorded
    \/ \E r \in Slots : SessionLookupFails(r) /\ Unrecorded
    \/ \E r \in Slots : SessionLookup(r) /\ Unrecorded
    \/ \E r \in Slots : TeacherLookupFails(r) /\ Unrecorded
    \/ \E r \in Slots : TeacherLookup(r) /\ Unrecorded
    \/ \E r \in Slots : WriteFails(r) /\ Unrecorded
    \/ \E r \in Slots : WriteLost(r) /\ Unrecorded
    \/ \E r \in Slots : CheckIn(r) /\ Unrecorded
    \/ \E r \in Slots : CheckOut(r) /\ Unrecorded
    \/ \E t \in ManagedTeacherIds, onDeleteCascade \in BOOLEAN :
          DeleteTeacher(t, onDeleteCascade) /\ Unrecorded
    \/ \E t \in ManagedTeacherIds : PutTeacher(t, NULL, NULL) /\ Unrecorded
    \/ Tick /\ Unrecorded

SpecCleanup == Init /\ [][NextCleanup]_vars

(* ------------ one request at a time, with status requests -------------- *)
\* a step of a status request
Observed == UNCHANGED <<history, fsFailures, measured>>

\* as NextSeq, with GET /attendance/status requests for the managed
\* teachers and without the record of responses
NextStatus ==
    \/ \E b \in Submissions :
          /\ nreq < MaxStatusSubmissions
          /\ \A r \in Slots : Free(r)
          /\ Submit(1, b) /\ Reliable
    \/ \E r \in Slots :
          SessionLookupFails(r) /\ Reliable
    \/ \E r \in Slots :
          SessionLookup(r) /\ Reliable
    \/ \E r \in Slots :
          TeacherLookupFails(r) /\ Reliable
    \/ \E r \in Slots :
          TeacherLookup(r) /\ Reliable
    \/ \E r \in Slots :
          WriteFails(r) /\ Reliable
    \/ \E r \in Slots :
          WriteLost(r) /\ Reliable
    \/ \E r \in Slots :
          CheckIn(r) /\ Reliable
    \/ \E r \in Slots :
          CheckOut(r) /\ Reliable
    \/ \E t \in ManagedTeacherIds, onDeleteCascade \in BOOLEAN :
          DeleteTeacher(t, onDeleteCascade) /\ Reliable
    \/ \E t \in ManagedTeacherIds :
          PutTeacher(t, NULL, NULL) /\ Reliable
    \/ Tick /\ Reliable
    \/ \E t \in ManagedTeacherIds :
          GetStatus(t) /\ Observed
    \/ StatusLookup /\ Observed
    \/ StatusLookupFails /\ Observed

SpecStatus == Init /\ [][NextStatus]_vars

(* ------------------- calculateDistance on its own ---------------------- *)
NextDistance ==
    \E A \in Points, B \in Points :
        /\ Measure(A, B)
        /\ UNCHANGED <<teachers, attendance, lastInsertId, uploads, now,
                       dbTzOffset, req, nreq, alive, adminOps, dbFailures,
                       fsFailures, statusReq, history>>

SpecDistance == Init /\ [][NextDistance]_vars

(* ------------------- every call comes back: fairness ------------------- *)
\* The continuation of request r after its pending await: the database
\* call settles (resolved or rejected) and the event loop resumes the
\* handler, which runs to its next await or to its response.
Handle(r) ==
    /\ \/ SessionLookupFails(r) \/ SessionLookup(r)
       \/ TeacherLookupFails(r) \/ TeacherLookup(r)
       \/ WriteFails(r) \/ WriteLost(r) \/ CheckIn(r) \/ CheckOut(r)
    /\ Reliable

\* requests arrive while others are being handled, and no database call
\* stays pending for ever
SpecLive == Init /\ [][Next]_vars /\ \A r \in Slots : WF_vars(Handle(r))

(* ======================= properties of the API ========================= *)
\* the kinds of answers
Accepted(q) == q.responses \in {<<201>>, <<200>>}
Rejected(q) == q.pc = "done" /\ ~Accepted(q)

\* request r is answered in this step
Answers(r) == req[r].pc # "done" /\ req'[r].pc = "done"

\* the results state determination can give for teacher t on UTC day d
Determinations(t, d) ==
    LET existing == SelectSessions(t, d) IN
    IF existing = {} THEN {ActionFor(existing, NoSession)}
    ELSE { ActionFor(existing, s) : s \in existing }

(* ---- C1 ---- *)
\* C1: for every teacher and every calendar day there is at most one
\* attendance row, also when submissions for the same teacher and day are
\* interleaved. Stated where the application's day and the database's day
\* are the same day (dbTzOffset = 0), so that only the interleaving of the
\* read and the INSERT is at stake.
C1_OneSessionPerTeacherDay ==
    dbTzOffset = 0 =>
        \A a, b \in attendance :
            (a.teacher_id = b.teacher_id
                /\ DATE(a.check_in_time) = DATE(b.check_in_time)) => a.id = b.id

(* ---- C2 ---- *)
\* the answer the lifecycle gives to the i-th submission of a day
LifecycleAnswer(i) == IF i = 1 THEN <<201>> ELSE IF i = 2 THEN <<200>> ELSE <<409>>
\* the state the lifecycle is in after n submissions of a day
LifecycleState(n) == IF n = 0 THEN "check_in" ELSE IF n = 1 THEN "check_out" ELSE "completed"

RequestsOf(t) == SelectSeq(history, LAMBDA e : e.teacher_id = t)
OnDay(H, d) == SelectSeq(H, LAMBDA e : e.day = d)

\* every request of teacher t so far was valid, in range, answered without
\* a database failure, on an unambiguous calendar day, and t still has its
\* designated coordinates
OnlyValidSubmissions(t) ==
    /\ teachers[t].exists /\ ~CoordinatesUnset(teachers[t])
    /\ \A i \in 1..Len(RequestsOf(t)) : RequestsOf(t)[i].clean

C3_CompletedIsTerminal ==
    [][\A a \in attendance :
          a.check_out_time # NoTime =>
              \A b \in attendance' : b.id = a.id => b = a]_vars

(* ---- C4 ---- *)
\* C4: when a request has been answered with a rejection or an error, every
\* photo stored for it has been deleted from storage.
C4_RejectionReleasesPhotos ==
    \A r \in Slots : Rejected(req[r]) => req[r].stored \cap uploads = {}

(* ---- C5 ---- *)
\* C5: a rejected submission performs no durable write: the step that
\* answers a rejection leaves the attendance table as it is and no earlier
\* step of that request wrote, and the table changes only in a step that
\* answers a check-in or check-out as successful (or by DELETE /teachers).
C5_RejectionWritesNothing ==
    [][/\ \A r \in Slots :
             (Answers(r) /\ Rejected(req'[r])) =>
                 (attendance' = attendance /\ req'[r].writes = 0)
       /\ attendance' # attendance =>
             \/ adminOps' # adminOps
             \/ \E r \in Slots : Answers(r) /\ Accepted(req'[r])]_vars

(* ---- C6 ---- *)
\* C6: a successful attempt performs exactly one durable write: the step
\* that answers 'Check-in successful' (201) adds exactly one row with a new
\* id, and the step that answers 'Check-out successful' (200) changes exactly
\* one existing row, setting its check-out timestamp.
C6_SuccessWritesOnce ==
    [][\A r \in Slots :
          (Answers(r) /\ Accepted(req'[r])) =>
              IF req'[r].responses = <<201>>
              THEN /\ attendance \subseteq attendance'
                   /\ \E a \in attendance' \ attendance :
                         /\ attendance' = attendance \cup {a}
                         /\ \A b \in attendance : b.id # a.id
              ELSE \E a \in attendance, b \in attendance' :
                         /\ attendance' = (attendance \ {a}) \cup {b}
                         /\ b # a /\ b.id = a.id /\ b.check_out_time = now]_vars

(* ---- C7 ---- *)
\* coordinates or either photo missing
MissingInput(b) ==
    Falsy(b.latitude) \/ Falsy(b.longitude) \/ ~b.photo1 \/ ~b.photo2

\* C7: the first failing condition decides, in the order (1) coordinates or a
\* photo missing: 400, (2) today's session completed: 409, (3) no such
\* teacher: 404, (4) designated coordinates unset: 400, (5) distance over
\* 50 m: 403; a submission goes on to its write only if none holds. Stated
\* for requests that carry a teacher_id, over steps in which no database
\* call fails.
C7_FirstFailingCondition ==
    [][\A r \in Slots :
          LET q == req[r]
              t == q.body.teacher_id
          IN
          dbFailures' = dbFailures =>
              /\ (q.pc = "lookup" /\ req'[r] # q) =>
                     IF MissingInput(q.body)
                     THEN Answers(r) /\ req'[r].responses = <<400>>
                     ELSE IF req'[r].attendanceAction = "completed"
                     THEN Answers(r) /\ req'[r].responses = <<409>>
                     ELSE req'[r].pc = "teacher"
              /\ (q.pc = "teacher" /\ req'[r] # q) =>
                     IF SelectTeacher(t) = {}
                     THEN Answers(r) /\ req'[r].responses = <<404>>
                     ELSE IF CoordinatesUnset(teachers[t])
                     THEN Answers(r) /\ req'[r].responses = <<400>>
                     ELSE IF DistanceTo(q, teachers[t]) # NaN
                             /\ DistanceTo(q, teachers[t]) > ALLOWED_RADIUS_METERS
                     THEN Answers(r) /\ req'[r].responses = <<403>>
                     ELSE req'[r].pc = "write"
              /\ (Answers(r) /\ Accepted(req'[r])) => q.pc = "write"]_vars

(* ---- C8 ---- *)
\* C8: a submission that passed steps 1-4 is rejected with out_of_range (403)
\* exactly when its distance exceeds 50 m (exactly 50 m is accepted), for
\* check-in and check-out alike, and every session write was preceded in the
\* same request by a distance check that yielded at most 50 m.
C8_GeofenceThreshold ==
    [][\A r \in Slots :
          LET q == req[r]
              t == q.body.teacher_id
          IN
          /\ (q.pc = "teacher" /\ req'[r] # q /\ dbFailures' = dbFailures
                 /\ SelectTeacher(t) # {} /\ ~CoordinatesUnset(teachers[t])) =>
                 /\ req'[r].distance = DistanceTo(q, teachers[t])
                 /\ (Answers(r) /\ req'[r].responses = <<403>>)
                        <=> (req'[r].distance # NaN
                                /\ req'[r].distance > ALLOWED_RADIUS_METERS)
          /\ (Answers(r) /\ req'[r].writes > 0) =>
                 (req'[r].distance # NaN
                     /\ req'[r].distance <= ALLOWED_RADIUS_METERS)]_vars

(* ---- C9 ---- *)
\* C9: a submission in which latitude, longitude, photo1 or photo2 is absent
\* (a request without any uploaded file included) is answered 400 and writes
\* no session, and the server keeps running. Stated over runs in which no
\* database call has failed.
C9_MissingInputIs400 ==
    dbFailures = 0 =>
        \A r \in Slots :
            (req[r].pc # "idle" /\ MissingInput(req[r].body)) =>
                /\ alive
                /\ req[r].writes = 0
                /\ req[r].pc \in {"lookup", "done"}
                /\ req[r].pc = "done" => req[r].responses = <<400>>

(* ---- C10 ---- *)
\* latitude or longitude is present and is not a number
Malformed(b) ==
    \/ ~Falsy(b.latitude) /\ parseFloat(b.latitude) = NaN
    \/ ~Falsy(b.longitude) /\ parseFloat(b.longitude) = NaN

\* C10: a submission whose latitude or longitude is present but not a number
\* never passes the geofence check and never leads to an insert or update;
\* it is answered 400 (where no database call failed and the day's session
\* is not already completed).
C10_MalformedIs400 ==
    \A r \in Slots :
        Malformed(req[r].body) =>
            /\ req[r].pc # "write"
            /\ req[r].writes = 0 /\ ~Accepted(req[r])
            /\ (req[r].pc = "done" /\ dbFailures = 0
                   /\ req[r].attendanceAction # "completed") =>
                   req[r].responses = <<400>>

(* ---- C11 ---- *)
\* the INSERT or UPDATE of request r is rejected in this step
WriteRejected(r) == req[r].pc = "write" /\ Answers(r) /\ ~Accepted(req'[r])

\* the INSERT of q names a teacher that has no row (any more)
ForeignKeyFails(q) ==
    q.attendanceAction = "check_in" /\ SelectTeacher(q.body.teacher_id) = {}

\* C11: when the INSERT or UPDATE of a submission that passed validation is
\* rejected, the request is answered 500, or 404 where the rejection is the
\* foreign key's (the teacher row was removed after the teacher lookup); in
\* both cases cleanupFiles has run before the response and the attendance
\* table is as it was before the write was attempted.
C11_WriteFailure ==
    [][\A r \in Slots :
          WriteRejected(r) =>
              /\ IF dbFailures' = dbFailures
                 THEN ForeignKeyFails(req[r]) /\ req'[r].responses = <<404>>
                 ELSE req'[r].responses = <<500>>
              /\ req'[r].cleanups = 1
              /\ attendance' = attendance]_vars

(* ---- C12 ---- *)
\* the rows of teacher t whose check-in was on calendar day d
SessionsOn(t, d) ==
    { a \in attendance : a.teacher_id = t /\ UtcDate(a.check_in_time) = d }

\* what a submission is treated as in the reported status
TreatedAs(status) ==
    CASE status = "not_checked_in" -> "check_in"
      [] status = "checked_in" -> "check_out"
      [] status = "completed" -> "completed"

\* C12: when GET /attendance/status answers for a teacher, it reports
\* not_checked_in (awaiting check-in) exactly when the teacher has no row of
\* the day of the request, checked_in (awaiting check-out) exactly when the
\* day's row has no check-out timestamp, completed exactly when it has one,
\* and the state determination of a submission for that teacher at that
\* moment gives the matching action: check_in, check_out, completed.
C12_StatusIsSessionState ==
    [][(statusReq.pc = "select" /\ statusReq'.pc = "done"
           /\ statusReq'.status # "error") =>
          LET t == statusReq.teacher_id
              d == statusReq.todayDate
              status == statusReq'.status
          IN /\ status = "not_checked_in" <=> SessionsOn(t, d) = {}
             /\ status = "checked_in"
                    <=> \E a \in SessionsOn(t, d) : a.check_out_time = NoTime
             /\ status = "completed"
                    <=> \E a \in SessionsOn(t, d) : a.check_out_time # NoTime
             /\ TreatedAs(status) \in Determinations(t, d)]_vars

(* ---- C13 ---- *)
\* C13: a session spans a single calendar day: the check-out timestamp of
\* every row that has one is on the calendar day of its check-in timestamp
\* (days as the database, which sets both timestamps, counts them), also
\* when the day changes between the state-determination read and the UPDATE.
C13_SessionWithinOneDay ==
    \A a \in attendance :
        a.check_out_time # NoTime => DATE(a.check_out_time) = DATE(a.check_in_time)

(* ---- C14 ---- *)
\* the photo references a row stores
PhotoRefs(a) ==
    {a.check_in_photo_url1, a.check_in_photo_url2,
     a.check_out_photo_url1, a.check_out_photo_url2} \ {NoPath}

\* C14: every photo reference stored in a session row names a file that is
\* present in photo storage and is served under its public URL, and the four
\* photo references of a completed session are pairwise distinct and have
\* pairwise distinct public URLs.
C14_PhotoReferencesValid ==
    \A a \in attendance :
        /\ \A p \in PhotoRefs(a) : p \in uploads /\ Retrievable(PublicUrl(p))
        /\ a.check_out_time # NoTime =>
               /\ Cardinality(PhotoRefs(a)) = 4
               /\ Cardinality({ PublicUrl(p) : p \in PhotoRefs(a) }) = 4

CheckInPart(a) ==
    [id |-> a.id, teacher_id |-> a.teacher_id, check_in_time |-> a.check_in_time,
     check_in_photo_url1 |-> a.check_in_photo_url1,
     check_in_photo_url2 |-> a.check_in_photo_url2,
     check_in_latitude |-> a.check_in_latitude,
     check_in_longitude |-> a.check_in_longitude]

\* C16: the step that answers 'Check-out successful' (200) changes at most
\* the check-out timestamp, check-out photos and check-out coordinates of
\* the row that state determination found: no row is inserted or removed,
\* every other row is as before, the row's id, teacher, check-in timestamp,
\* check-in photos and check-in coordinates are as before, and the
\* attendanceId of the response is the id of that row.
C16_CheckOutFrame ==
    [][\A r \in Slots :
          (Answers(r) /\ req'[r].responses = <<200>>) =>
              LET q == req[r] IN
              /\ Cardinality(attendance') = Cardinality(attendance)
              /\ { CheckInPart(a) : a \in attendance' }
                     = { CheckInPart(a) : a \in attendance }
              /\ \A a \in attendance : a.id # q.session => a \in attendance'
              /\ q.session # NoSession
              /\ req'[r].attendanceId = q.session]_vars

\* a check-out was answered 200 and its row, now completed with the photos
\* of that request, is not the only row
C16_Witness ==
    \E r \in Slots :
        /\ req[r].responses = <<200>>
        /\ \E a, b \in attendance :
              /\ a.id = req[r].attendanceId /\ b.id # a.id
              /\ a.check_out_time # NoTime
              /\ a.check_out_photo_url1 = req[r].photo1

(* ---- C17 ---- *)
\* the rows of the teachers other than x
RowsOfOthers(A, x) == { a \in A : a.teacher_id # x }

\* request r takes a step
Steps(r) == req[r].pc \in {"lookup", "teacher", "write"} /\ req'[r] # req[r]

\* C17: submissions for different teachers are independent under any
\* interleaving: a step of a submission for teacher x leaves the rows of all
\* other teachers as they are and deletes no file but the photos stored for
\* that same request, and what state determination gives it (check_in,
\* check_out or completed, and the session) is determined by the rows of
\* teacher x alone.
C17_TeachersIndependent ==
    [][\A r \in Slots :
          Steps(r) =>
              LET q == req[r]
                  x == q.body.teacher_id
                  own == { a \in attendance :
                              a.teacher_id = x /\ DATE(a.check_in_time) = q.todayDate }
              IN
              /\ RowsOfOthers(attendance', x) = RowsOfOthers(attendance, x)
              /\ (uploads \ uploads') \subseteq q.stored
              /\ (q.pc = "lookup" /\ dbFailures' = dbFailures) =>
                     IF own = {}
                     THEN /\ req'[r].attendanceAction = "check_in"
                          /\ req'[r].session = NoSession
                     ELSE \E a \in own :
                             /\ req'[r].session = a.id
                             /\ req'[r].attendanceAction =
                                    IF a.check_out_time = NoTime
                                    THEN "check_out" ELSE "completed"]_vars

\* two submissions for different teachers, handled at the same time, were
\* both accepted, and each teacher has the row of its own submission
C17_Witness ==
    \E r, s \in Slots :
        /\ Accepted(req[r]) /\ Accepted(req[s])
        /\ req[r].body.teacher_id # req[s].body.teacher_id
        /\ \E a, b \in attendance :
              /\ a.id = req[r].attendanceId /\ a.teacher_id = req[r].body.teacher_id
              /\ b.id = req[s].attendanceId /\ b.teacher_id = req[s].body.teacher_id

(* ---- C18 ---- *)
\* the status of the rejection that request q, at its present step, is about
\* to be answered with
PrimaryRejection(q) ==
    LET t == q.body.teacher_id IN
    CASE q.pc = "lookup" ->
             IF MissingInput(q.body) THEN 400 ELSE 409
      [] q.pc = "teacher" ->
             IF dbFailures' # dbFailures THEN 500
             ELSE IF SelectTeacher(t) = {} THEN 404
             ELSE IF CoordinatesUnset(teachers[t]) THEN 400 ELSE 403
      [] q.pc = "write" ->
             IF dbFailures' # dbFailures THEN 500 ELSE 404

\* C18: a failure of cleanupFiles is not escalated: in a step in which the
\* cleanup of a rejected submission fails, the request is answered exactly
\* once, with the status of the rejection that caused the cleanup (400, 409,
\* 404, 403 or 500), and the server keeps running.
C18_CleanupFailureNotEscalated ==
    [][fsFailures' # fsFailures =>
          /\ alive'
          /\ \E r \in Slots :
                /\ Answers(r) /\ req'[r].cleanups = 1
                /\ req'[r].responses = <<PrimaryRejection(req[r])>>
          /\ \A r \in Slots : ~Answers(r) => req'[r] = req[r]]_vars

\* a third submission of a day was answered conflict (409) while the unlink
\* of its photos failed
C18_Witness ==
    \E r \in Slots :
        /\ req[r].responses = <<409>> /\ req[r].cleanups = 1
        /\ fsFailures = 1 /\ req[r].stored \cap uploads # {}

(* ---- C19 ---- *)
\* the action part of the name of the file at path
ActionInName(path) == basename(path)[2]

\* C19: the name of every photo stored for a submission contains the action
\* of that submission: 'check_in' for a check-in attempt, 'check_out' for a
\* check-out attempt.
C19_FilenameNamesAction ==
    \A r \in Slots :
        req[r].attendanceAction \in {"check_in", "check_out"} =>
            \A p \in req[r].stored : ActionInName(p) = req[r].attendanceAction

(* ---- C20 ---- *)
\* C20: the calendar day the application looks sessions up under (the UTC
\* date of its clock) is at every moment the day under which the database
\* keys a row inserted at that moment (DATE(NOW())), and so a state
\* determination for a teacher who has a row checked in on the day of the
\* request never gives check_in.
C20_ApplicationDayIsDatabaseDay ==
    [][/\ todayDate = DATE(now)
       /\ \A r \in Slots :
             (req[r].pc = "lookup" /\ req'[r] # req[r] /\ dbFailures' = dbFailures
                 /\ SessionsOn(req[r].body.teacher_id, req[r].todayDate) # {}) =>
                 req'[r].attendanceAction # "check_in"]_vars


(* ---- C21 ---- *)
\* request r has been received and has no response yet
Pending(r) == req[r].pc \notin {"idle", "done"}

\* C21: every POST /attendance request eventually receives exactly one
\* response: no request is ever answered twice, a request that has ended
\* has one response, and every request that has been received is answered,
\* whatever state determination gave it and whether each database call
\* succeeds or fails.
C21_ExactlyOneResponse ==
    /\ [](\A r \in Slots :
             /\ Len(req[r].responses) <= 1
             /\ req[r].pc = "done" => Len(req[r].responses) = 1)
    /\ \A r \in Slots : Pending(r) ~> (req[r].pc = "done")
=============================================================================
